---- MODULE Spec2Model ----
(***************************************************************************)
(* Model of pkg/bugtool/maps.go (tetragon bugtool, BPF map memory checks). *)
(*                                                                         *)
(* Spec        : one run of RunMapsChecks over a pinned-object directory   *)
(*               `dir` chosen at Init, against a fixed kernel snapshot     *)
(*               (Kernel maps / programs below).  FindAllMaps,             *)
(*               mapIDsFromPinnedProgs, FindMapsUsedByPinnedProgs and      *)
(*               FindPinnedMaps run as the phases RunMapsChecks calls.     *)
(*               Every call into the ebpf library or the OS draws its      *)
(*               outcome (success / failure) with \E.                      *)
(* SpecAlgebra : inter, diff, exter, union applied to two keyed            *)
(*               collections drawn from bounded sets.                      *)
(***************************************************************************)
EXTENDS Integers, Sequences, FiniteSets, TLC

\* ------------------------------------------------------------------ bounds
MaxDirLen == 3
MaxKey == 3

\* --------------------------------------------------- the kernel snapshot
\* Loaded maps.  3 and 9 are program arrays (tail-call tables).
MapIDs == {3, 5, 7, 9}
\* Loaded programs.
ProgIDs == {41, 42, 43}

\* Name, type, memlock of each map and, for a program array, the program
\* IDs in its populated slots.
KernelMaps ==
  [i \in MapIDs |->
     CASE i = 3 -> [Name |-> "t", Type |-> "ProgramArray", Memlock |-> 1, Slots |-> <<42>>]
       [] i = 5 -> [Name |-> "a", Type |-> "Hash", Memlock |-> 4, Slots |-> <<>>]
       [] i = 7 -> [Name |-> "a", Type |-> "Hash", Memlock |-> 8, Slots |-> <<>>]
       [] i = 9 -> [Name |-> "u", Type |-> "ProgramArray", Memlock |-> 4, Slots |-> <<43, 42>>]]

\* progInfo.MapIDs() of each program: the maps it references.
\*   41 -> map 5 and program array 3 -> 42 -> map 5 and program array 9
\*      -> 43 -> map 7
KernelProgs ==
  [p \in ProgIDs |->
     CASE p = 41 -> <<5, 3>>
       [] p = 42 -> <<5, 9, 5>>
       [] p = 43 -> <<7>>]

\* ExtendedMapInfo of a loaded map (MapInfo + Memlock).
ExtendedMapInfo(i) ==
  [ID |-> i, Name |-> KernelMaps[i].Name, Type |-> KernelMaps[i].Type,
   Memlock |-> KernelMaps[i].Memlock]

\* ------------------------------------------------------ pinned directory
DirEntry == [kind |-> "dir", id |-> 0]
LinkEntry == [kind |-> "link", id |-> 0]
Entries ==
  {DirEntry, LinkEntry}
    \cup {[kind |-> "map", id |-> i] : i \in MapIDs}
    \cup {[kind |-> "prog", id |-> p] : p \in ProgIDs}
\* The entries WalkDir visits, in lexical order.
Dirs == UNION {[1..n -> Entries] : n \in 0..MaxDirLen}

\* ------------------------------------------------------------------ state
VARIABLES
  dir,         \* entries under TetragonBPFFS, in WalkDir order
  pc,          \* position of RunMapsChecks
  handles,     \* every handle opened so far: [obj, by, closes]
  deferred,    \* defer stack of the running function (handle indexes)
  faults,      \* kinds of failure the environment has produced
  mapID,       \* FindAllMaps: cursor
  mapInfos,    \* FindAllMaps / FindMapsUsedByPinnedProgs: records so far
  idx,         \* position of the running loop / walk
  mapSet,      \* mapIDsFromPinnedProgs: map IDs found
  progArrays,  \* mapIDsFromPinnedProgs: retained program-array handles
  progIDs,     \* mapIDsFromPinnedProgs: program IDs read from prog arrays
  infos,       \* FindPinnedMaps: records so far
  ret,         \* return value of each function, NoRet before it returns
  m1, m2,      \* set algebra: the two input collections
  algpc,       \* set algebra: next operation to apply
  res          \* set algebra: results

runVars == <<dir, pc, handles, deferred, faults, mapID, mapInfos, idx,
             mapSet, progArrays, progIDs, infos, ret>>
algVars == <<m1, m2, algpc, res>>
vars == <<dir, pc, handles, deferred, faults, mapID, mapInfos, idx,
          mapSet, progArrays, progIDs, infos, ret, m1, m2, algpc, res>>

Fns == {"FindAllMaps", "mapIDsFromPinnedProgs", "FindMapsUsedByPinnedProgs",
        "FindPinnedMaps", "RunMapsChecks"}
NoRet == [val |-> <<>>, err |-> "pending"]
Returned(fn) == ret[fn].err # "pending"
Ok(val) == [val |-> val, err |-> "nil"]
Fail == [val |-> <<>>, err |-> "error"]

\* ---------------------------------------------------------------- handles
\* Opening appends a handle; its identity is its index in `handles`.
Open(hs, kind, id, by) ==
  Append(hs, [obj |-> [kind |-> kind, id |-> id], by |-> by, closes |-> 0])
Close(hs, h) == [hs EXCEPT ![h].closes = @ + 1]
\* Run a defer stack, last registered first.
RECURSIVE RunDeferred(_, _)
RunDeferred(hs, ds) ==
  IF ds = <<>> THEN hs
  ELSE RunDeferred(Close(hs, ds[Len(ds)]), SubSeq(ds, 1, Len(ds) - 1))
OpenHandles(by) == {h \in DOMAIN handles : handles[h].by = by /\ handles[h].closes = 0}

Min(S) == CHOOSE x \in S : \A y \in S : x <= y
RECURSIVE TotalByteMemlock(_)
\* TotalByteMemlock: sum of the Memlock field over a slice of records.
TotalByteMemlock(recs) ==
  IF recs = <<>> THEN 0
  ELSE recs[1].Memlock + TotalByteMemlock(Tail(recs))
Range(s) == {s[i] : i \in DOMAIN s}

\* ------------------------------------------------------------------- Init
\* var mapID ebpf.MapID: the zero value, "no previous ID".
NoPrevID == 0

AlgIdle == [inter |-> <<>>, diff |-> <<>>, diffRev |-> <<>>, exter |-> <<>>, union |-> <<>>]

Init ==
  /\ dir \in Dirs
  /\ pc = "RunMapsChecks"
  /\ handles = <<>>
  /\ deferred = <<>>
  /\ faults = {}
  /\ mapID = NoPrevID
  /\ mapInfos = <<>>
  /\ idx = 1
  /\ mapSet = {}
  /\ progArrays = <<>>
  /\ progIDs = <<>>
  /\ infos = <<>>
  /\ ret = [fn \in Fns |-> NoRet]
  /\ m1 = <<>> /\ m2 = <<>> /\ algpc = "idle" /\ res = AlgIdle

\* ---------------------------------------------------- RunMapsChecks: stat
\* os.Stat(TetragonBPFFS); on success call FindAllMaps.
RMC_Stat ==
  /\ pc = "RunMapsChecks"
  /\ \E ok \in BOOLEAN :
       IF ok
       THEN /\ pc' = "FindAllMaps"
            /\ mapID' = NoPrevID
            /\ mapInfos' = <<>>
            /\ deferred' = <<>>
            /\ UNCHANGED <<faults, ret>>
       ELSE /\ pc' = "done"
            /\ faults' = faults \cup {"other"}
            /\ ret' = [ret EXCEPT !["RunMapsChecks"] = Fail]
            /\ UNCHANGED <<mapID, mapInfos, deferred>>
  /\ UNCHANGED <<dir, handles, idx, mapSet, progArrays, progIDs, infos>>
  /\ UNCHANGED algVars

\* ------------------------------------------------------------ FindAllMaps
\* ebpf.MapGetNextID(prev): the smallest loaded ID above prev, or ENOENT.
MapGetNextID(prev) ==
  IF \E i \in MapIDs : i > prev
  THEN [id |-> Min({i \in MapIDs : i > prev}), err |-> "nil"]
  ELSE [id |-> 0, err |-> "ENOENT"]

\* One iteration that gets an ID, opens the map, reads info and memlock and
\* appends the record.  defer m.Close() is registered, it runs at return.
FAM_Next ==
  /\ pc = "FindAllMaps"
  /\ MapGetNextID(mapID).err = "nil"
  /\ LET id == MapGetNextID(mapID).id
     IN /\ mapID' = id
        /\ handles' = Open(handles, "map", id, "FindAllMaps")
        /\ deferred' = Append(deferred, Len(handles) + 1)
        /\ mapInfos' = Append(mapInfos, ExtendedMapInfo(id))
  /\ UNCHANGED <<dir, pc, faults, idx, mapSet, progArrays, progIDs, infos, ret>>
  /\ UNCHANGED algVars

\* Entering mapIDsFromPinnedProgs (called first thing by
\* FindMapsUsedByPinnedProgs): fresh locals.
EnterProgsWalk ==
  /\ idx' = 1
  /\ mapSet' = {}
  /\ progArrays' = <<>>
  /\ progIDs' = <<>>

\* MapGetNextID reports ENOENT: return mapInfos, nil.  The deferred closes
\* run; RunMapsChecks goes on to FindMapsUsedByPinnedProgs.
FAM_End ==
  /\ pc = "FindAllMaps"
  /\ MapGetNextID(mapID).err = "ENOENT"
  /\ handles' = RunDeferred(handles, deferred)
  /\ deferred' = <<>>
  /\ ret' = [ret EXCEPT !["FindAllMaps"] = Ok(mapInfos)]
  /\ pc' = "walkProgs"
  /\ mapInfos' = <<>>
  /\ EnterProgsWalk
  /\ UNCHANGED <<dir, faults, mapID, infos>>
  /\ UNCHANGED algVars

\* Faulty variant of FAM_Fail: returns the records gathered so far along
\* with the error.
FAM_Fail_Partial ==
  /\ pc = "FindAllMaps"
  /\ \E point \in {"nextID", "open", "info", "memlock"} :
       /\ point # "nextID" => MapGetNextID(mapID).err = "nil"
       /\ LET id == MapGetNextID(mapID).id
              opened == point \in {"info", "memlock"}
              hs == IF opened THEN Open(handles, "map", id, "FindAllMaps") ELSE handles
              ds == IF opened THEN Append(deferred, Len(handles) + 1) ELSE deferred
          IN /\ handles' = RunDeferred(hs, ds)
             /\ mapID' = IF point = "nextID" THEN mapID ELSE id
  /\ deferred' = <<>>
  /\ faults' = faults \cup {"other"}
  /\ ret' = [ret EXCEPT !["FindAllMaps"] = [val |-> mapInfos, err |-> "error"],
                        !["RunMapsChecks"] = Fail]
  /\ pc' = "done"
  /\ UNCHANGED <<dir, mapInfos, idx, mapSet, progArrays, progIDs, infos>>
  /\ UNCHANGED algVars

\* Any other failure: MapGetNextID fails with another error, or
\* NewMapFromID, m.Info or parseMemlockFromFDInfo fails.  return nil, err;
\* RunMapsChecks returns the error.
FAM_Fail ==
  /\ pc = "FindAllMaps"
  /\ \E point \in {"nextID", "open", "info", "memlock"} :
       /\ point # "nextID" => MapGetNextID(mapID).err = "nil"
       /\ LET id == MapGetNextID(mapID).id
              opened == point \in {"info", "memlock"}
              hs == IF opened THEN Open(handles, "map", id, "FindAllMaps") ELSE handles
              ds == IF opened THEN Append(deferred, Len(handles) + 1) ELSE deferred
          IN /\ handles' = RunDeferred(hs, ds)
             /\ mapID' = IF point = "nextID" THEN mapID ELSE id
  /\ deferred' = <<>>
  /\ faults' = faults \cup {"other"}
  /\ ret' = [ret EXCEPT !["FindAllMaps"] = Fail, !["RunMapsChecks"] = Fail]
  /\ pc' = "done"
  /\ UNCHANGED <<dir, mapInfos, idx, mapSet, progArrays, progIDs, infos>>
  /\ UNCHANGED algVars

\* ------------------------------------------------------- mapIDsFromProgs
\* prog.Info().MapIDs() folded into a set (mapSet[int(id)] = true).
mapIDsFromProgs(p) == Range(KernelProgs[p])

\* maps.Keys(set): the keys as a slice, in an order Go leaves unspecified.
Keys(S) == {s \in [1..Cardinality(S) -> S] : Range(s) = S}

\* ------------------------------------------- mapIDsFromPinnedProgs: walk
MIPP == "mapIDsFromPinnedProgs"

\* mapIDsFromPinnedProgs returns nil and an error; FindMapsUsedByPinnedProgs
\* and RunMapsChecks wrap and return it.
ProgsAbort ==
  /\ ret' = [ret EXCEPT ![MIPP] = Fail,
                        !["FindMapsUsedByPinnedProgs"] = Fail,
                        !["RunMapsChecks"] = Fail]
  /\ pc' = "done"

\* d.IsDir(): return nil.
PW_SkipDir ==
  /\ pc = "walkProgs"
  /\ idx <= Len(dir)
  /\ dir[idx].kind = "dir"
  /\ idx' = idx + 1
  /\ UNCHANGED <<dir, pc, handles, deferred, faults, mapID, mapInfos,
                 mapSet, progArrays, progIDs, infos, ret>>
  /\ UNCHANGED algVars

\* A pinned program: load, isProg says yes, add its map IDs to mapSet.
\* defer prog.Close() runs when the callback returns.
PW_Prog ==
  /\ pc = "walkProgs"
  /\ idx <= Len(dir)
  /\ dir[idx].kind = "prog"
  /\ handles' = Close(Open(handles, "prog", dir[idx].id, MIPP), Len(handles) + 1)
  /\ mapSet' = mapSet \cup mapIDsFromProgs(dir[idx].id)
  /\ idx' = idx + 1
  /\ UNCHANGED <<dir, pc, deferred, faults, mapID, mapInfos,
                 progArrays, progIDs, infos, ret>>
  /\ UNCHANGED algVars

\* A pinned object that is no program and that LoadPinnedProgram opened all
\* the same: isProg says no.  If isMap says yes the path is loaded again as
\* a map; a program array is retained in progArrays, any other map closed.
PW_NonProg ==
  /\ pc = "walkProgs"
  /\ idx <= Len(dir)
  /\ dir[idx].kind \in {"map", "link"}
  /\ LET e == dir[idx]
         h1 == Len(handles) + 1
         hs1 == Open(handles, e.kind, e.id, MIPP)
         h2 == h1 + 1
         hs2 == Open(hs1, "map", e.id, MIPP)
     IN IF e.kind = "map"
        THEN IF KernelMaps[e.id].Type = "ProgramArray"
             THEN /\ progArrays' = Append(progArrays, h2)
                  /\ handles' = Close(hs2, h1)
             ELSE /\ progArrays' = progArrays
                  /\ handles' = Close(Close(hs2, h2), h1)
        ELSE /\ progArrays' = progArrays
             /\ handles' = Close(hs1, h1)
  /\ idx' = idx + 1
  /\ UNCHANGED <<dir, pc, deferred, faults, mapID, mapInfos,
                 mapSet, progIDs, infos, ret>>
  /\ UNCHANGED algVars

\* The callback returns an error: WalkDir stops, mapIDsFromPinnedProgs
\* returns nil, err.  Nothing was deferred at function level yet, so the
\* handles retained in progArrays stay as they are.
\*   load      LoadPinnedProgram fails for another reason
\*   wrongKind LoadPinnedProgram fails because the object is no program
\*   isProg    readlink fails in isProg
\*   isMap     readlink fails in isMap
\*   loadMap   LoadPinnedMap fails
\*   progInfo  mapIDsFromProgs fails (prog.Info, or MapIDs not available)
PW_Fail ==
  /\ pc = "walkProgs"
  /\ idx <= Len(dir)
  /\ dir[idx].kind # "dir"
  /\ \E point \in {"load", "wrongKind", "isProg", "isMap", "loadMap", "progInfo"} :
       /\ point = "wrongKind" => dir[idx].kind # "prog"
       /\ point = "isMap" => dir[idx].kind # "prog"
       /\ point = "loadMap" => dir[idx].kind = "map"
       /\ point = "progInfo" => dir[idx].kind = "prog"
       /\ handles' = IF point \in {"load", "wrongKind"} THEN handles
                     ELSE Close(Open(handles, dir[idx].kind, dir[idx].id, MIPP),
                                Len(handles) + 1)
       /\ faults' = faults \cup {IF point = "wrongKind" THEN "wrongKind" ELSE "other"}
  /\ ProgsAbort
  /\ UNCHANGED <<dir, deferred, mapID, mapInfos, idx, mapSet, progArrays,
                 progIDs, infos>>
  /\ UNCHANGED algVars

\* WalkDir returns nil: go on to the retained program arrays.
PW_End ==
  /\ pc = "walkProgs"
  /\ idx > Len(dir)
  /\ pc' = "progArrays"
  /\ idx' = 1
  /\ UNCHANGED <<dir, handles, deferred, faults, mapID, mapInfos, mapSet,
                 progArrays, progIDs, infos, ret>>
  /\ UNCHANGED algVars

\* ---------------------------------- mapIDsFromPinnedProgs: program arrays
\* Faulty variant of PA_Iterate: iterates but collects no program ID.
PA_Iterate_NoCollect ==
  /\ pc = "progArrays"
  /\ idx <= Len(progArrays)
  /\ LET slots == KernelMaps[handles[progArrays[idx]].obj.id].Slots
     IN \E k \in 0..Len(slots), failed \in BOOLEAN :
          /\ ~failed => k = Len(slots)
          /\ progIDs' = progIDs
          /\ faults' = IF failed THEN faults \cup {"iter"} ELSE faults
  /\ deferred' = Append(deferred, progArrays[idx])
  /\ idx' = idx + 1
  /\ UNCHANGED <<dir, pc, handles, mapID, mapInfos, mapSet, progArrays, infos, ret>>
  /\ UNCHANGED algVars

\* One retained program array: defer progArray.Close(), then
\*   for progArrayIterator.Next(&key, &value) { progIDs = append(...) ... }
\* Next yields the first k entries.  It returns false when the entries are
\* exhausted and also when the iteration fails (failed); Err() is non-nil
\* only after Next returned false, so the check of Err() in the loop body
\* never sees the failure and the loop just ends.
PA_Iterate ==
  /\ pc = "progArrays"
  /\ idx <= Len(progArrays)
  /\ LET slots == KernelMaps[handles[progArrays[idx]].obj.id].Slots
     IN \E k \in 0..Len(slots), failed \in BOOLEAN :
          /\ ~failed => k = Len(slots)
          /\ progIDs' = progIDs \o SubSeq(slots, 1, k)
          /\ faults' = IF failed THEN faults \cup {"iter"} ELSE faults
  /\ deferred' = Append(deferred, progArrays[idx])
  /\ idx' = idx + 1
  /\ UNCHANGED <<dir, pc, handles, mapID, mapInfos, mapSet, progArrays, infos, ret>>
  /\ UNCHANGED algVars

PA_End ==
  /\ pc = "progArrays"
  /\ idx > Len(progArrays)
  /\ pc' = "tailCalls"
  /\ idx' = 1
  /\ UNCHANGED <<dir, handles, deferred, faults, mapID, mapInfos, mapSet,
                 progArrays, progIDs, infos, ret>>
  /\ UNCHANGED algVars

\* ----------------------------- mapIDsFromPinnedProgs: tail-call programs
\* Faulty variant of TC_Resolve: the program's map IDs replace mapSet
\* instead of being added to it.
TC_Resolve_Overwrite ==
  /\ pc = "tailCalls"
  /\ idx <= Len(progIDs)
  /\ handles' = Open(handles, "prog", progIDs[idx], MIPP)
  /\ deferred' = Append(deferred, Len(handles) + 1)
  /\ mapSet' = mapIDsFromProgs(progIDs[idx])
  /\ idx' = idx + 1
  /\ UNCHANGED <<dir, pc, faults, mapID, mapInfos, progArrays, progIDs, infos, ret>>
  /\ UNCHANGED algVars

\* One program ID: NewProgramFromID, defer prog.Close(), add its map IDs.
TC_Resolve ==
  /\ pc = "tailCalls"
  /\ idx <= Len(progIDs)
  /\ handles' = Open(handles, "prog", progIDs[idx], MIPP)
  /\ deferred' = Append(deferred, Len(handles) + 1)
  /\ mapSet' = mapSet \cup mapIDsFromProgs(progIDs[idx])
  /\ idx' = idx + 1
  /\ UNCHANGED <<dir, pc, faults, mapID, mapInfos, progArrays, progIDs, infos, ret>>
  /\ UNCHANGED algVars

\* NewProgramFromID or mapIDsFromProgs fails: return nil, err; the deferred
\* closes run.
TC_Fail ==
  /\ pc = "tailCalls"
  /\ idx <= Len(progIDs)
  /\ \E point \in {"open", "progInfo"} :
       LET opened == point = "progInfo"
           hs == IF opened THEN Open(handles, "prog", progIDs[idx], MIPP) ELSE handles
           ds == IF opened THEN Append(deferred, Len(handles) + 1) ELSE deferred
       IN handles' = RunDeferred(hs, ds)
  /\ deferred' = <<>>
  /\ faults' = faults \cup {"other"}
  /\ ProgsAbort
  /\ UNCHANGED <<dir, mapID, mapInfos, idx, mapSet, progArrays, progIDs, infos>>
  /\ UNCHANGED algVars

\* return maps.Keys(mapSet), nil; the deferred closes run.
\* FindMapsUsedByPinnedProgs starts its loop over the returned IDs.
MIPP_Return ==
  /\ pc = "tailCalls"
  /\ idx > Len(progIDs)
  /\ \E keys \in Keys(mapSet) : ret' = [ret EXCEPT ![MIPP] = Ok(keys)]
  /\ handles' = RunDeferred(handles, deferred)
  /\ deferred' = <<>>
  /\ pc' = "FindMapsUsedByPinnedProgs"
  /\ idx' = 1
  /\ mapInfos' = <<>>
  /\ UNCHANGED <<dir, faults, mapID, mapSet, progArrays, progIDs, infos>>
  /\ UNCHANGED algVars

\* ---------------------------------------------- FindMapsUsedByPinnedProgs
FMU == "FindMapsUsedByPinnedProgs"

\* memlockInfoFromMapID(mapID): open the map by ID, read memlock and info,
\* close it on return; append the record.
FMU_Next ==
  /\ pc = "FindMapsUsedByPinnedProgs"
  /\ idx <= Len(ret[MIPP].val)
  /\ LET id == ret[MIPP].val[idx]
     IN /\ handles' = Close(Open(handles, "map", id, FMU), Len(handles) + 1)
        /\ mapInfos' = Append(mapInfos, ExtendedMapInfo(id))
  /\ idx' = idx + 1
  /\ UNCHANGED <<dir, pc, deferred, faults, mapID, mapSet, progArrays, progIDs,
                 infos, ret>>
  /\ UNCHANGED algVars

\* memlockInfoFromMapID fails: return nil, err.
FMU_Fail ==
  /\ pc = "FindMapsUsedByPinnedProgs"
  /\ idx <= Len(ret[MIPP].val)
  /\ \E point \in {"open", "memlock", "info"} :
       handles' = IF point = "open" THEN handles
                  ELSE Close(Open(handles, "map", ret[MIPP].val[idx], FMU),
                             Len(handles) + 1)
  /\ faults' = faults \cup {"other"}
  /\ ret' = [ret EXCEPT ![FMU] = Fail, !["RunMapsChecks"] = Fail]
  /\ pc' = "done"
  /\ UNCHANGED <<dir, deferred, mapID, mapInfos, idx, mapSet, progArrays,
                 progIDs, infos>>
  /\ UNCHANGED algVars

\* return mapInfos, nil; RunMapsChecks calls FindPinnedMaps.
FMU_Return ==
  /\ pc = "FindMapsUsedByPinnedProgs"
  /\ idx > Len(ret[MIPP].val)
  /\ ret' = [ret EXCEPT ![FMU] = Ok(mapInfos)]
  /\ pc' = "FindPinnedMaps"
  /\ idx' = 1
  /\ infos' = <<>>
  /\ mapInfos' = <<>>
  /\ UNCHANGED <<dir, handles, deferred, faults, mapID, mapSet, progArrays, progIDs>>
  /\ UNCHANGED algVars

\* --------------------------------------------------------- FindPinnedMaps
FPM == "FindPinnedMaps"

\* d.IsDir(): return nil.
MW_SkipDir ==
  /\ pc = "FindPinnedMaps"
  /\ idx <= Len(dir)
  /\ dir[idx].kind = "dir"
  /\ idx' = idx + 1
  /\ UNCHANGED <<dir, pc, handles, deferred, faults, mapID, mapInfos,
                 mapSet, progArrays, progIDs, infos, ret>>
  /\ UNCHANGED algVars

\* A pinned map: load, isMap says yes, read info and memlock, append the
\* record.  defer m.Close() runs when the callback returns.
MW_Map ==
  /\ pc = "FindPinnedMaps"
  /\ idx <= Len(dir)
  /\ dir[idx].kind = "map"
  /\ handles' = Close(Open(handles, "map", dir[idx].id, FPM), Len(handles) + 1)
  /\ infos' = Append(infos, ExtendedMapInfo(dir[idx].id))
  /\ idx' = idx + 1
  /\ UNCHANGED <<dir, pc, deferred, faults, mapID, mapInfos,
                 mapSet, progArrays, progIDs, ret>>
  /\ UNCHANGED algVars

\* A pinned object that is no map and that LoadPinnedMap opened all the
\* same: isMap says no, return nil.
MW_NonMap ==
  /\ pc = "FindPinnedMaps"
  /\ idx <= Len(dir)
  /\ dir[idx].kind \in {"prog", "link"}
  /\ handles' = Close(Open(handles, dir[idx].kind, dir[idx].id, FPM), Len(handles) + 1)
  /\ idx' = idx + 1
  /\ UNCHANGED <<dir, pc, deferred, faults, mapID, mapInfos,
                 mapSet, progArrays, progIDs, infos, ret>>
  /\ UNCHANGED algVars

\* The callback returns an error: WalkDir stops, FindPinnedMaps returns
\* nil, err and so does RunMapsChecks.
\*   load      LoadPinnedMap fails for another reason
\*   wrongKind LoadPinnedMap fails because the object is no map
\*   isMap     readlink fails in isMap
\*   info      m.Info fails
\*   memlock   parseMemlockFromFDInfo fails
MW_Fail ==
  /\ pc = "FindPinnedMaps"
  /\ idx <= Len(dir)
  /\ dir[idx].kind # "dir"
  /\ \E point \in {"load", "wrongKind", "isMap", "info", "memlock"} :
       /\ point = "wrongKind" => dir[idx].kind # "map"
       /\ point \in {"info", "memlock"} => dir[idx].kind = "map"
       /\ handles' = IF point \in {"load", "wrongKind"} THEN handles
                     ELSE Close(Open(handles, dir[idx].kind, dir[idx].id, FPM),
                                Len(handles) + 1)
       /\ faults' = faults \cup {IF point = "wrongKind" THEN "wrongKind" ELSE "other"}
  /\ ret' = [ret EXCEPT ![FPM] = Fail, !["RunMapsChecks"] = Fail]
  /\ pc' = "done"
  /\ UNCHANGED <<dir, deferred, mapID, mapInfos, idx, mapSet, progArrays,
                 progIDs, infos>>
  /\ UNCHANGED algVars

\* WalkDir returns nil: return infos, nil.
MW_Return ==
  /\ pc = "FindPinnedMaps"
  /\ idx > Len(dir)
  /\ ret' = [ret EXCEPT ![FPM] = Ok(infos)]
  /\ pc' = "report"
  /\ infos' = <<>>
  /\ UNCHANGED <<dir, handles, deferred, faults, mapID, mapInfos, idx, mapSet,
                 progArrays, progIDs>>
  /\ UNCHANGED algVars

\* ------------------------------------------------------------ set algebra
\* Keyed collections (Go map[int]T) are functions from a set of keys.
Put(f, k, v) == [i \in DOMAIN f \cup {k} |-> IF i = k THEN v ELSE f[i]]
Pick(S) == CHOOSE k \in S : TRUE

\* for i := range m1 { if _, exists := m2[i]; exists { ret[i] = m1[i] } }
RECURSIVE interLoop(_, _, _, _)
interLoop(keys, a, b, r) ==
  IF keys = {} THEN r
  ELSE LET i == Pick(keys)
       IN interLoop(keys \ {i}, a, b, IF i \in DOMAIN b THEN Put(r, i, a[i]) ELSE r)
inter(a, b) == interLoop(DOMAIN a, a, b, <<>>)

\* for i := range m1 { if _, exists := m2[i]; !exists { ret[i] = m1[i] } }
RECURSIVE diffLoop(_, _, _, _)
diffLoop(keys, a, b, r) ==
  IF keys = {} THEN r
  ELSE LET i == Pick(keys)
       IN diffLoop(keys \ {i}, a, b, IF i \notin DOMAIN b THEN Put(r, i, a[i]) ELSE r)
\* Faulty variant of diff: the test on m2 is not negated.
diff_NotNegated(a, b) == interLoop(DOMAIN a, a, b, <<>>)
diff(a, b) == diffLoop(DOMAIN a, a, b, <<>>)

\* the loop of diff over m1, then the same loop over m2 into the same ret
exter(a, b) == diffLoop(DOMAIN b, b, a, diffLoop(DOMAIN a, a, b, <<>>))

\* for i := range m { ret[i] = m[i] }
RECURSIVE copyLoop(_, _, _)
copyLoop(keys, a, r) ==
  IF keys = {} THEN r
  ELSE LET i == Pick(keys)
       IN copyLoop(keys \ {i}, a, Put(r, i, a[i]))
union(a, b) == copyLoop(DOMAIN b, b, copyLoop(DOMAIN a, a, <<>>))

\* ---------------------------------------------------- RunMapsChecks: report
\* for _, info := range infos { set[int(id)] = info }
RECURSIVE KeyByID(_, _)
KeyByID(acc, recs) ==
  IF recs = <<>> THEN acc
  ELSE KeyByID(Put(acc, recs[1].ID, recs[1]), Tail(recs))

\* The loop over union that groups by Name: the first record of a name
\* starts an entry with count 1, every further one adds its Memlock and
\* increments count.  (Of the entry only Name, count and Memlock are kept
\* here; they do not depend on the order Go ranges over the map.)
RECURSIVE aggregateLoop(_, _, _)
aggregateLoop(keys, u, agg) ==
  IF keys = {} THEN agg
  ELSE LET i == Pick(keys)
           m == u[i]
       IN aggregateLoop(keys \ {i}, u,
            IF m.Name \in DOMAIN agg
            THEN [agg EXCEPT ![m.Name].Memlock = @ + m.Memlock,
                             ![m.Name].count = @ + 1]
            ELSE [n \in DOMAIN agg \cup {m.Name} |->
                    IF n = m.Name
                    THEN [Name |-> m.Name, Memlock |-> m.Memlock, count |-> 1]
                    ELSE agg[n]])
\* Faulty variant of aggregate: a further record of a name adds its Memlock
\* but count stays as it is.
RECURSIVE aggregateLoop_NoCount(_, _, _)
aggregateLoop_NoCount(keys, u, agg) ==
  IF keys = {} THEN agg
  ELSE LET i == Pick(keys)
           m == u[i]
       IN aggregateLoop_NoCount(keys \ {i}, u,
            IF m.Name \in DOMAIN agg
            THEN [agg EXCEPT ![m.Name].Memlock = @ + m.Memlock]
            ELSE [n \in DOMAIN agg \cup {m.Name} |->
                    IF n = m.Name
                    THEN [Name |-> m.Name, Memlock |-> m.Memlock, count |-> 1]
                    ELSE agg[n]])
aggregate_NoCount(u) == aggregateLoop_NoCount(DOMAIN u, u, <<>>)
aggregate(u) == aggregateLoop(DOMAIN u, u, <<>>)

\* maps.Values + sort.Slice descending by Memlock (order of ties left open),
\* then one AggregatedMap per entry.  PercentOfTotal is a float64 and is
\* not kept.
AggregatedMaps(agg) ==
  LET es == {[Name |-> agg[n].Name, Count |-> agg[n].count,
              TotalMemlock |-> agg[n].Memlock] : n \in DOMAIN agg}
  IN {s \in Keys(es) :
        \A i, j \in DOMAIN s : i < j => s[i].TotalMemlock >= s[j].TotalMemlock}

\* MapsStats as RunMapsChecks fills it.
MapsStats(pinnedProgsMaps, pinnedMaps) ==
  LET pinnedProgsMapsSet == KeyByID(<<>>, pinnedProgsMaps)
      pinnedMapsSet == KeyByID(<<>>, pinnedMaps)
  IN [PinnedProgsMaps |-> Cardinality(DOMAIN pinnedProgsMapsSet),
      PinnedMaps |-> Len(pinnedMaps),
      Inter |-> Cardinality(DOMAIN inter(pinnedMapsSet, pinnedProgsMapsSet)),
      Exter |-> Cardinality(DOMAIN exter(pinnedMapsSet, pinnedProgsMapsSet)),
      Union |-> Cardinality(DOMAIN union(pinnedMapsSet, pinnedProgsMapsSet)),
      Diff |-> Cardinality(DOMAIN diff(pinnedMapsSet, pinnedProgsMapsSet))]

\* Everything after the three collections are there, with every record
\* carrying an ID.
RMC_Report ==
  /\ pc = "report"
  /\ LET allMaps == ret["FindAllMaps"].val
         pinnedProgsMaps == ret[FMU].val
         pinnedMaps == ret[FPM].val
         pinnedProgsMapsSet == KeyByID(<<>>, pinnedProgsMaps)
         pinnedMapsSet == KeyByID(<<>>, pinnedMaps)
         d == diff(pinnedMapsSet, pinnedProgsMapsSet)
         u == union(pinnedMapsSet, pinnedProgsMapsSet)
     IN \E am \in AggregatedMaps(aggregate(u)) :
          ret' = [ret EXCEPT !["RunMapsChecks"] = Ok(
            [TotalByteMemlock |->
               [AllMaps |-> TotalByteMemlock(allMaps),
                PinnedProgsMaps |-> TotalByteMemlock(pinnedProgsMaps),
                PinnedMaps |-> TotalByteMemlock(pinnedMaps)],
             MapsStats |-> MapsStats(pinnedProgsMaps, pinnedMaps),
             DiffMaps |-> {d[i] : i \in DOMAIN d},
             AggregatedMaps |-> am])]
  /\ pc' = "done"
  /\ UNCHANGED <<dir, handles, deferred, faults, mapID, mapInfos, idx, mapSet,
                 progArrays, progIDs, infos>>
  /\ UNCHANGED algVars

\* info.ID() reports no ID (kernel older than 4.13) on the first record.
RMC_ReportFail ==
  /\ pc = "report"
  /\ ret[FMU].val # <<>> \/ ret[FPM].val # <<>>
  /\ faults' = faults \cup {"other"}
  /\ ret' = [ret EXCEPT !["RunMapsChecks"] = Fail]
  /\ pc' = "done"
  /\ UNCHANGED <<dir, handles, deferred, mapID, mapInfos, idx, mapSet,
                 progArrays, progIDs, infos>>
  /\ UNCHANGED algVars

Next ==
  \/ RMC_Stat
  \/ FAM_Next \/ FAM_End \/ FAM_Fail
  \/ PW_SkipDir \/ PW_Prog \/ PW_NonProg \/ PW_Fail \/ PW_End
  \/ PA_Iterate \/ PA_End
  \/ TC_Resolve \/ TC_Fail
  \/ MIPP_Return
  \/ FMU_Next \/ FMU_Fail \/ FMU_Return
  \/ MW_SkipDir \/ MW_Map \/ MW_NonMap \/ MW_Fail \/ MW_Return
  \/ RMC_Report \/ RMC_ReportFail

Spec == Init /\ [][Next]_vars

\* ------------------------------------------------ set algebra on its own
Vals == {"x", "y"}
\* Every collection with keys in 1..MaxKey.
Collections == UNION {[K -> Vals] : K \in SUBSET (1..MaxKey)}

InitAlgebra ==
  /\ m1 \in Collections
  /\ m2 \in Collections
  /\ algpc = "inter"
  /\ res = AlgIdle
  /\ dir = <<>>
  /\ pc = "idle"
  /\ handles = <<>>
  /\ deferred = <<>>
  /\ faults = {}
  /\ mapID = NoPrevID
  /\ mapInfos = <<>>
  /\ idx = 1
  /\ mapSet = {}
  /\ progArrays = <<>>
  /\ progIDs = <<>>
  /\ infos = <<>>
  /\ ret = [fn \in Fns |-> NoRet]

ALG_Inter ==
  /\ algpc = "inter"
  /\ res' = [res EXCEPT !.inter = inter(m1, m2)]
  /\ algpc' = "diff"
  /\ UNCHANGED <<m1, m2>>
  /\ UNCHANGED runVars

ALG_Diff ==
  /\ algpc = "diff"
  /\ res' = [res EXCEPT !.diff = diff(m1, m2)]
  /\ algpc' = "diffRev"
  /\ UNCHANGED <<m1, m2>>
  /\ UNCHANGED runVars

\* diff with the arguments swapped
ALG_DiffRev ==
  /\ algpc = "diffRev"
  /\ res' = [res EXCEPT !.diffRev = diff(m2, m1)]
  /\ algpc' = "exter"
  /\ UNCHANGED <<m1, m2>>
  /\ UNCHANGED runVars

ALG_Exter ==
  /\ algpc = "exter"
  /\ res' = [res EXCEPT !.exter = exter(m1, m2)]
  /\ algpc' = "union"
  /\ UNCHANGED <<m1, m2>>
  /\ UNCHANGED runVars

ALG_Union ==
  /\ algpc = "union"
  /\ res' = [res EXCEPT !.union = union(m1, m2)]
  /\ algpc' = "done"
  /\ UNCHANGED <<m1, m2>>
  /\ UNCHANGED runVars

NextAlgebra == ALG_Inter \/ ALG_Diff \/ ALG_DiffRev \/ ALG_Exter \/ ALG_Union

SpecAlgebra == InitAlgebra /\ [][NextAlgebra]_vars

\* ======================================================== what the
\* directory and the kernel snapshot say, independent of the code's loops
PinnedProgs == {dir[i].id : i \in {j \in DOMAIN dir : dir[j].kind = "prog"}}
PinnedMapIdx == {j \in DOMAIN dir : dir[j].kind = "map"}
PinnedMapIDs == {dir[i].id : i \in PinnedMapIdx}
PinnedArrays == {a \in PinnedMapIDs : KernelMaps[a].Type = "ProgramArray"}
MapsOf(progs) == UNION {Range(KernelProgs[p]) : p \in progs}
ProgsIn(arrays) == UNION {Range(KernelMaps[a].Slots) : a \in arrays}
ArraysOf(progs) == {a \in MapsOf(progs) : KernelMaps[a].Type = "ProgramArray"}

\* Maps of the pinned programs, and of the programs listed in a pinned
\* program array.
DirectMaps == MapsOf(PinnedProgs)
TailMaps == MapsOf(ProgsIn(PinnedArrays))

\* Programs reachable from the pinned programs through any chain of
\* program arrays that reachable programs reference.
RECURSIVE Closure(_)
Closure(progs) ==
  LET more == progs \cup ProgsIn(ArraysOf(progs))
  IN IF more = progs THEN progs ELSE Closure(more)
ReachableProgs == Closure(PinnedProgs)

NoDup(s) == \A i, j \in DOMAIN s : i # j => s[i] # s[j]
RECURSIVE SumMemlock(_, _)
SumMemlock(keys, u) ==
  IF keys = {} THEN 0
  ELSE LET i == Pick(keys) IN u[i].Memlock + SumMemlock(keys \ {i}, u)
RECURSIVE SumField(_, _)
SumField(s, f) == IF s = <<>> THEN 0 ELSE s[1][f] + SumField(Tail(s), f)

\* ------------------------------------------------------------------ C1
\* C1: when mapIDsFromPinnedProgs has returned, on whatever exit path,
\* every handle it opened has been closed exactly once.
C1_HandlesClosedOnce ==
  Returned(MIPP) =>
    \A h \in DOMAIN handles : handles[h].by = MIPP => handles[h].closes = 1

\* ------------------------------------------------------------------ C2
\* C2: in both walks an entry of the other kind is skipped, whether its
\* load fails as wrong-kind or succeeds and the classifier says no; with
\* no failure of another kind the walk of FindPinnedMaps returns the
\* records of exactly the pinned maps and the walk of
\* mapIDsFromPinnedProgs ends with the maps of exactly the pinned programs.
C2_WrongKindSkipped ==
  /\ (Returned(FPM) /\ "other" \notin faults) =>
       /\ ret[FPM].err = "nil"
       /\ Len(ret[FPM].val) = Cardinality(PinnedMapIdx)
       /\ Range(ret[FPM].val) = {ExtendedMapInfo(i) : i \in PinnedMapIDs}
  /\ (Returned(MIPP) /\ "other" \notin faults) => ret[MIPP].err = "nil"
  /\ pc = "progArrays" => mapSet = DirectMaps

\* ------------------------------------------------------------------ C3
\* C3: when no failure occurs mapIDsFromPinnedProgs returns, without
\* duplicates, exactly the maps of the pinned programs together with the
\* maps of the programs listed in the pinned program arrays.
C3_ResolverUnion ==
  (Returned(MIPP) /\ faults = {}) =>
    /\ ret[MIPP].err = "nil"
    /\ NoDup(ret[MIPP].val)
    /\ Range(ret[MIPP].val) = DirectMaps \cup TailMaps

\* a pinned program and a pinned program array whose program shares a map
\* with it and brings a new one
C3_Witness ==
  /\ Returned(MIPP) /\ faults = {}
  /\ DirectMaps \cap TailMaps # {}
  /\ TailMaps \ DirectMaps # {}
  /\ DirectMaps \ TailMaps # {}

\* ------------------------------------------------------------------ C4
\* The records of all loaded maps, ascending by ID.
AllMapsAscending ==
  LET order == CHOOSE s \in Keys(MapIDs) : \A i, j \in DOMAIN s : i < j => s[i] < s[j]
  IN [k \in DOMAIN order |-> ExtendedMapInfo(order[k])]

\* C4: FindAllMaps, started from the no-previous-ID cursor, returns
\* successfully unless a failure other than not-found occurs, then with one
\* record per loaded map in ascending ID order; on any other failure it
\* returns an error and no records.
C4_EnumeratorResult ==
  Returned("FindAllMaps") =>
    /\ ret["FindAllMaps"].err = "nil" => ret["FindAllMaps"].val = AllMapsAscending
    /\ ret["FindAllMaps"].err # "nil" =>
         ret["FindAllMaps"].val = <<>> /\ "other" \in faults
    /\ faults = {} => ret["FindAllMaps"].err = "nil"

C4_Witness ==
  /\ Returned("FindAllMaps")
  /\ ret["FindAllMaps"].err = "nil"
  /\ Len(ret["FindAllMaps"].val) = Cardinality(MapIDs)

\* ------------------------------------------------------------------ C5
\* C5: the key sets of diff(A,B), inter(A,B) and diff(B,A) are pairwise
\* disjoint, their union is the key set of union(A,B), and exter(A,B) has
\* size(union) - size(inter) keys.
C5_AlgebraPartition ==
  algpc = "done" =>
    LET D1 == DOMAIN res.diff
        I == DOMAIN res.inter
        D2 == DOMAIN res.diffRev
        U == DOMAIN res.union
    IN /\ D1 \cap I = {} /\ D1 \cap D2 = {} /\ I \cap D2 = {}
       /\ D1 \cup I \cup D2 = U
       /\ Cardinality(DOMAIN res.exter) = Cardinality(U) - Cardinality(I)

C5_Witness ==
  /\ algpc = "done"
  /\ DOMAIN res.diff # {} /\ DOMAIN res.inter # {} /\ DOMAIN res.diffRev # {}

\* ------------------------------------------------------------------ C6
\* C6: the aggregated entries of the report partition the union collection
\* by name: one entry per name, Count the number of union records of that
\* name, TotalMemlock the sum of their memlock; so the TotalMemlock add up
\* to the memlock of the union and the Count to its size.
C6_AggregationPartition ==
  ret["RunMapsChecks"].err = "nil" =>
    LET u == union(KeyByID(<<>>, ret[FPM].val), KeyByID(<<>>, ret[FMU].val))
        am == ret["RunMapsChecks"].val.AggregatedMaps
        named(n) == {i \in DOMAIN u : u[i].Name = n}
    IN /\ {am[k].Name : k \in DOMAIN am} = {u[i].Name : i \in DOMAIN u}
       /\ \A j, k \in DOMAIN am : j # k => am[j].Name # am[k].Name
       /\ \A k \in DOMAIN am :
            /\ am[k].Count = Cardinality(named(am[k].Name))
            /\ am[k].TotalMemlock = SumMemlock(named(am[k].Name), u)
       /\ SumField(am, "TotalMemlock") = SumMemlock(DOMAIN u, u)
       /\ SumField(am, "Count") = Cardinality(DOMAIN u)

\* a report with a name shared by two maps and another name
C6_Witness ==
  /\ ret["RunMapsChecks"].err = "nil"
  /\ Len(ret["RunMapsChecks"].val.AggregatedMaps) >= 2
  /\ \E k \in DOMAIN ret["RunMapsChecks"].val.AggregatedMaps :
       ret["RunMapsChecks"].val.AggregatedMaps[k].Count = 2

\* ------------------------------------------------------------------ C7
\* C7 as stated: the returned set holds every map of every program
\* reachable from the pinned programs through any chain of program arrays,
\* pinned or not.
C7_TransitiveClosure ==
  (Returned(MIPP) /\ faults = {}) =>
    MapsOf(ReachableProgs) \subseteq Range(ret[MIPP].val)

\* C7 amended: when no failure occurs the returned set holds every map of
\* a program pinned under the path or listed in a program array pinned
\* under the path (one level of tail calls, through pinned arrays only).
C7_OneLevel ==
  (Returned(MIPP) /\ faults = {}) =>
    \A p \in PinnedProgs \cup ProgsIn(PinnedArrays) :
      \A m \in Range(KernelProgs[p]) :
        \E k \in DOMAIN ret[MIPP].val : ret[MIPP].val[k] = m

\* a pinned program array brings in a map no pinned program references,
\* and a map reachable only through deeper tail calls is left out
C7_Witness ==
  /\ Returned(MIPP) /\ faults = {}
  /\ TailMaps \ DirectMaps # {}
  /\ MapsOf(ReachableProgs) \ Range(ret[MIPP].val) # {}

\* ------------------------------------------------------------------ C8
\* C8: if iterating a retained program array fails, mapIDsFromPinnedProgs
\* returns an error and no map-ID set.
C8_IterationErrorAborts ==
  (Returned(MIPP) /\ "iter" \in faults) =>
    ret[MIPP].err # "nil" /\ ret[MIPP].val = <<>>

\* ------------------------------------------------------------------ C9
\* C9: at every point of FindAllMaps at most one handle it opened is open,
\* and none once it has returned.
C9_OneTransientHandle ==
  /\ Cardinality(OpenHandles("FindAllMaps")) <= 1
  /\ Returned("FindAllMaps") => OpenHandles("FindAllMaps") = {}

\* ----------------------------------------------------------------- C10
\* C10: in every report the size statistics are those of sets keyed by map
\* ID: PinnedMaps is the number of distinct pinned map IDs,
\* Union = PinnedMaps + PinnedProgsMaps - Inter, Diff = PinnedMaps - Inter,
\* Exter = Union - Inter.
C10_StatsConsistent ==
  ret["RunMapsChecks"].err = "nil" =>
    LET st == ret["RunMapsChecks"].val.MapsStats
    IN /\ st.PinnedMaps = Cardinality(PinnedMapIDs)
       /\ st.Union = st.PinnedMaps + st.PinnedProgsMaps - st.Inter
       /\ st.Diff = st.PinnedMaps - st.Inter
       /\ st.Exter = st.Union - st.Inter

====
